---------------------------- MODULE Spec2Model ----------------------------
(***************************************************************************)
(* Model of snap_gpx_track_to_wpts/cli.py: the track matcher               *)
(* (find_closest_on_segment, find_closest_vertex) and the snap engine      *)
(* (process_add, process_move) working on one track segment of a GPX       *)
(* document.  The loops over gpx_data.tracks and track.segments run the     *)
(* same steps on each segment in turn, with the same waypoints and maxdist *)
(* and a fresh list of insertions; nothing a segment's turn writes is read *)
(* by another's.  The state is that of one such turn, Init drawing the     *)
(* segment.                                                                *)
(*                                                                         *)
(* Encoding of the floating-point geometry.                                *)
(*   - A coordinate is an exact rational [n |-> _, d |-> _] counted in     *)
(*     micro-degrees: the model value k stands for the float k * 1e-6      *)
(*     degrees.  Input points lie on the grid Lats \X Lons next to         *)
(*     latitude 0 / longitude 0, waypoints also at OffGridCells between    *)
(*     its points.  There cos(radians(mean latitude)) is 1                 *)
(*     to within 1e-14 and the haversine distance is, to the same          *)
(*     precision, EARTH_RADIUS * radians(1e-6) * sqrt(dlat^2 + dlon^2).    *)
(*   - haversine therefore returns the SQUARED distance in micro-degree    *)
(*     units as a rational; comparisons between distances are comparisons  *)
(*     of the squares.  A distance is compared with a length in metres     *)
(*     (maxdist, TOLERANCE) through UnitLen, the length of one unit.       *)
(*   - maxdist is given in centimetres (the model value 12 stands for      *)
(*     -d 0.12).                                                           *)
(*   - Rounding.  For coordinates that are whole micro-degrees of the      *)
(*     grid Lats \X Lons every float comparison of the matcher comes out   *)
(*     as the exact one (OnGrid).  For other coordinates the floats of     *)
(*     lines 39-43 and 15-19 are rounded: a projection that is not an end  *)
(*     of its edge bit for bit can miss the waypoint lying on the edge,    *)
(*     leaving a distance of about 1e-17 m in place of 0.0, and of two     *)
(*     distances that are equal in exact arithmetic either can be the      *)
(*     smaller float.  Which way a rounding goes is not computed here: a   *)
(*     distance is [n, d, res], the exact square n / d plus res rounding   *)
(*     residues, and a matcher call draws the residues of the distances    *)
(*     it computes from Roundings, the set of the ways they can fall.      *)
(*   - Indices are 0-based as in the Python code; Python's None for        *)
(*     vertex_idx is None_, float("inf") is Inf.                           *)
(*   - The field id of a point stands for the identity of the Python       *)
(*     object: <<"in", i>> for the i-th point of the input segment,        *)
(*     <<"wpt", w>>, <<"proj", w>>, <<"proj_dup", w>>, <<"dup", w>> for    *)
(*     the objects built while waypoint number w is processed.             *)
(***************************************************************************)
EXTENDS Integers, Sequences, FiniteSets, TLC

\* ------------------------------------------------------------------ bounds
MaxPts == 3          \* longest input segment
MaxWpts == 2         \* longest waypoint list
Lats == {0, 1}       \* latitudes of the input grid, micro-degrees
Lons == {0, 1, 2}    \* longitudes of the input grid, micro-degrees
MaxDists == {0, 12}  \* values of -d, centimetres

\* ------------------------------------------------------- program constants
EARTH_RADIUS == 6371000
\* TOLERANCE = 0.05 m, in units of 0.1 mm
TOLERANCE == 500
\* the thresholds 1e-9 and 1 - 1e-9 on t, as 1 / T_EPS_INV
T_EPS_INV == 1000000000
\* vertex_idx = None
None_ == -1
\* elevation of a point built by make_bare_point (None)
NoEle == 0
\* cos(radians((alat + blat) / 2)) on the input grid
cos_lat == 1
\* length of one micro-degree on the sphere in units of 0.1 mm:
\* EARTH_RADIUS * pi / 180 * 1e-6 m = 0.111195 m, with pi = 355/113
UnitLen == (((EARTH_RADIUS \div 1000) * 355 * 100) \div (113 * 180) + 5) \div 10

\* ---------------------------------------------------------------- rationals
RECURSIVE GCD(_, _)
GCD(a, b) == IF b = 0 THEN a ELSE GCD(b, a % b)

Abs(x) == IF x < 0 THEN -x ELSE x

Rat(n, d) ==
    LET g == GCD(Abs(n), Abs(d))
        s == IF d < 0 THEN -1 ELSE 1
    IN  IF g = 0 THEN [n |-> 0, d |-> 1]
        ELSE [n |-> s * (n \div g), d |-> s * (d \div g)]

Int2Rat(k) == [n |-> k, d |-> 1]
Zero == Int2Rat(0)
One == Int2Rat(1)
\* float("inf"), as a distance
Inf == [n |-> 1, d |-> 0, res |-> 0]

\* sums and comparisons over the least common denominator, which keeps the
\* products small
RAdd(a, b) ==
    LET g == GCD(a.d, b.d)
    IN  Rat(a.n * (b.d \div g) + b.n * (a.d \div g), (a.d \div g) * b.d)
RSub(a, b) ==
    LET g == GCD(a.d, b.d)
    IN  Rat(a.n * (b.d \div g) - b.n * (a.d \div g), (a.d \div g) * b.d)
RMul(a, b) == Rat(a.n * b.n, a.d * b.d)
RDiv(a, b) == Rat(a.n * b.d, a.d * b.n)
RLess(a, b) ==
    LET g == GCD(a.d, b.d)
    IN  a.n * (b.d \div g) < b.n * (a.d \div g)
RMin(a, b) == IF RLess(b, a) THEN b ELSE a
RMax(a, b) == IF RLess(a, b) THEN b ELSE a

\* d1 < d2 for two float distances: the exact squares decide, the rounding
\* residues when the squares are equal
FLess(d1, d2) ==
    \/ RLess(d1, d2)
    \/ d1.n = d2.n /\ d1.d = d2.d /\ d1.res < d2.res

\* dist < len and dist > len, for a float distance dsq (squared, in units)
\* and a length len in units of 0.1 mm
DistLess(dsq, len) == dsq.n * UnitLen * UnitLen < len * len * dsq.d
DistGreater(dsq, len) ==
    \/ dsq.n * UnitLen * UnitLen > len * len * dsq.d
    \/ dsq.n * UnitLen * UnitLen = len * len * dsq.d /\ dsq.res > 0

\* ------------------------------------------------------------- input grid
\* <<latitude, longitude>> of a place, micro-degrees
Cell(la, lo) == <<Int2Rat(la), Int2Rat(lo)>>
\* places off the grid: 0.0000004 and 0.0000008 degrees of longitude, both
\* on the edge from <<0, 0>> to <<0, 2>>, the first within TOLERANCE of its
\* start
OffGridCells == {<<Zero, Rat(2, 5)>>, <<Zero, Rat(4, 5)>>}
\* the places a waypoint can have: on the grid a corner, the middle of the
\* edge from <<0, 0>> to <<0, 2>> and a place beside it, and the places off
\* the grid
WaypointCells == {Cell(0, 0), Cell(0, 1), Cell(1, 1)} \cup OffGridCells
\* the places a track point can have: three corners of the grid, which give
\* edges of squared length 1, 4 and 5
TrackCells == {Cell(0, 0), Cell(0, 2), Cell(1, 2)}
\* a point whose coordinates are whole micro-degrees of the grid
OnGrid(p) ==
    /\ p.lat.d = 1 /\ p.lat.n \in Lats
    /\ p.lon.d = 1 /\ p.lon.n \in Lons

\* ------------------------------------------------------------------ points
Point(lat, lon, ele, id) == [lat |-> lat, lon |-> lon, ele |-> ele, id |-> id]

make_bare_point(lat, lon, id) == Point(lat, lon, NoEle, id)

duplicate_point(pt, id) == [pt EXCEPT !.id = id]

\* --------------------------------------------------------- distance metric
haversine(lat1, lon1, lat2, lon2) ==
    LET dlat == RSub(lat2, lat1)
        dlon == RSub(lon2, lon1)
        sq == RAdd(RMul(dlat, dlat), RMul(RMul(dlon, dlon), Int2Rat(cos_lat)))
    IN  [n |-> sq.n, d |-> sq.d, res |-> 0]

\* ------------------------------------------------------- segment projector
project_onto_segment(wlat, wlon, alat, alon, blat, blon) ==
    LET c == Int2Rat(cos_lat)
        ax == RMul(alon, c)
        ay == alat
        bx == RMul(blon, c)
        by == blat
        wx == RMul(wlon, c)
        wy == wlat
        dx == RSub(bx, ax)
        dy == RSub(by, ay)
        len_sq == RAdd(RMul(dx, dx), RMul(dy, dy))
        t0 == RDiv(RAdd(RMul(RSub(wx, ax), dx), RMul(RSub(wy, ay), dy)), len_sq)
        t == RMax(Zero, RMin(One, t0))
    IN  IF len_sq = Zero
        THEN [plat |-> alat, plon |-> alon, t |-> Zero, raw |-> Zero]
        ELSE [plat |-> RAdd(alat, RMul(t, RSub(blat, alat))),
              plon |-> RAdd(alon, RMul(t, RSub(blon, alon))),
              t |-> t, raw |-> t0]

\* ---------------------------------------------------------------- rounding
\* The ways the residues of the distances es[1].d, ..., es[n].d of one
\* matcher call can fall.  es[k].exact: the point the distance is measured
\* to is the same float in the code as in exact arithmetic; es[k].grid: all
\* that the distance is computed from lies on the grid; es[k].at: the point
\* the distance is measured to.
\*   - Rounding does not reverse an order of exact arithmetic: only a least
\*     distance has a residue.
\*   - A distance 0 to an exact point is the float 0.0.
\*   - Equal distances to the same exact point, or computed on the grid, are
\*     the same float.
\*   - Residues of distances other than 0 count from the least float.
RoundingsOf(es, free) ==
    LET alike(j, k) ==
            /\ es[j].exact /\ es[k].exact
            /\ (es[j].grid /\ es[k].grid) \/ es[j].at = es[k].at
        falls == {h \in [free -> {0, 1, 2}] :
                     /\ \A j, k \in free : alike(j, k) => h[j] = h[k]
                     /\ (free # {} /\ \A k \in free : es[k].d.n # 0) =>
                           \E k \in free : h[k] = 0}
    IN  {[k \in 1..Len(es) |-> IF k \in free THEN h[k] ELSE 0] : h \in falls}

\* free: the distances that can have a residue
Roundings(es) ==
    LET least(k) == \A j \in 1..Len(es) : ~RLess(es[j].d, es[k].d)
    IN  UNION {RoundingsOf(es, free) :
                  free \in {{k \in 1..Len(es) :
                               /\ least(k)
                               /\ ~(es[k].d.n = 0 /\ es[k].exact)}}}

\* the distance of line 73 for the edge from a to b, and how it is computed
EdgeDistance(wpt, a, b, pr) ==
    [d |-> haversine(wpt.lat, wpt.lon, pr.plat, pr.plon),
     grid |-> OnGrid(wpt) /\ OnGrid(a) /\ OnGrid(b),
     \* the projection is an end of the edge bit for bit: on the grid, by
     \* line 37, with t clamped to 0.0, or with t clamped to 1.0 between
     \* points of the grid
     exact |-> \/ OnGrid(wpt) /\ OnGrid(a) /\ OnGrid(b)
               \/ <<a.lat, a.lon>> = <<b.lat, b.lon>>
               \/ RLess(pr.raw, Zero)
               \/ RLess(One, pr.raw) /\ OnGrid(a) /\ OnGrid(b),
     at |-> <<pr.plat, pr.plon>>]

\* the roundings of the distances of line 73, one for each edge
EdgeRoundings(wpt, points) ==
    UNION {Roundings(es) :
              es \in {[k \in 1..(Len(points) - 1) |->
                          EdgeDistance(wpt, points[k], points[k + 1],
                              project_onto_segment(
                                  wpt.lat, wpt.lon,
                                  points[k].lat, points[k].lon,
                                  points[k + 1].lat, points[k + 1].lon))]}}

\* the distance of line 118 for the vertex pt, and how it is computed
VertexDistance(wpt, pt) ==
    [d |-> haversine(wpt.lat, wpt.lon, pt.lat, pt.lon),
     grid |-> OnGrid(wpt) /\ OnGrid(pt),
     exact |-> TRUE,
     at |-> <<pt.lat, pt.lon>>]

\* the roundings of the distances of line 118, one for each vertex
VertexRoundings(wpt, points) ==
    UNION {Roundings(es) :
              es \in {[k \in 1..Len(points) |->
                          VertexDistance(wpt, points[k])]}}

\* ----------------------------------------------------------- track matcher
MatchResult(dist, seg_idx, plat, plon, t, vertex_idx) ==
    [dist |-> dist, seg_idx |-> seg_idx, plat |-> plat, plon |-> plon,
     t |-> t, vertex_idx |-> vertex_idx]

\* the loop over the edges, i = 0 .. len(points) - 2
RECURSIVE ScanEdges(_, _, _, _, _)
ScanEdges(wpt, points, i, best, rho) ==
    IF i >= Len(points) - 1 THEN best
    ELSE LET a == points[i + 1]
             b == points[i + 2]
             pr == project_onto_segment(wpt.lat, wpt.lon,
                                        a.lat, a.lon, b.lat, b.lon)
             d == [haversine(wpt.lat, wpt.lon, pr.plat, pr.plon)
                      EXCEPT !.res = rho[i + 1]]
         IN  ScanEdges(wpt, points, i + 1,
                       IF FLess(d, best.dist)
                       THEN MatchResult(d, i, pr.plat, pr.plon, pr.t, None_)
                       ELSE best,
                       rho)

\* best_t < 1e-9 and best_t > 1 - 1e-9, without overflowing
TNearZero(t) == t.n < (t.d + T_EPS_INV - 1) \div T_EPS_INV
TNearOne(t) == t.d - t.n < (t.d + T_EPS_INV - 1) \div T_EPS_INV

\* the classification with the end vertex of the edge taken for its start
ClassifyVertex_EndOffByOne(points, best) ==
    IF TNearZero(best.t) THEN best.seg_idx
    ELSE IF TNearOne(best.t) THEN best.seg_idx
    ELSE LET a == points[best.seg_idx + 1]
             b == points[best.seg_idx + 2]
             d_a == haversine(best.plat, best.plon, a.lat, a.lon)
             d_b == haversine(best.plat, best.plon, b.lat, b.lon)
         IN  IF DistLess(d_a, TOLERANCE) THEN best.seg_idx
             ELSE IF DistLess(d_b, TOLERANCE) THEN best.seg_idx + 1
             ELSE None_

\* the classification of the winning projection, lines 89-105
ClassifyVertex(points, best) ==
    IF TNearZero(best.t) THEN best.seg_idx
    ELSE IF TNearOne(best.t) THEN best.seg_idx + 1
    ELSE LET a == points[best.seg_idx + 1]
             b == points[best.seg_idx + 2]
             d_a == haversine(best.plat, best.plon, a.lat, a.lon)
             d_b == haversine(best.plat, best.plon, b.lat, b.lon)
         IN  IF DistLess(d_a, TOLERANCE) THEN best.seg_idx
             ELSE IF DistLess(d_b, TOLERANCE) THEN best.seg_idx + 1
             ELSE None_

\* rho: the rounding of the distances of the edges; the distance returned
\* says whether a residue is left (res = 1) or not (res = 0)
find_closest_on_segment(wpt, points, rho) ==
    IF points = <<>> THEN MatchResult(Inf, 0, Zero, Zero, Zero, None_)
    ELSE LET best == ScanEdges(wpt, points, 0,
                               MatchResult(Inf, 0, Zero, Zero, Zero, None_),
                               rho)
             p == points[1]
             d == haversine(wpt.lat, wpt.lon, p.lat, p.lon)
         IN  IF Len(points) = 1 /\ FLess(d, best.dist)
             THEN MatchResult(d, 0, p.lat, p.lon, Zero, 0)
             ELSE [best EXCEPT
                      !.dist.res = IF @ > 0 THEN 1 ELSE 0,
                      !.vertex_idx = ClassifyVertex(points, best)]

\* the loop over the vertices with d <= best_dist for d < best_dist
RECURSIVE ScanVertices_LastWins(_, _, _, _, _)
ScanVertices_LastWins(wpt, points, i, best, rho) ==
    IF i >= Len(points) THEN best
    ELSE LET pt == points[i + 1]
             d == [haversine(wpt.lat, wpt.lon, pt.lat, pt.lon)
                      EXCEPT !.res = rho[i + 1]]
         IN  ScanVertices_LastWins(wpt, points, i + 1,
                                   IF ~FLess(best.dist, d)
                                   THEN [dist |-> d, idx |-> i]
                                   ELSE best,
                                   rho)

\* the loop over the vertices, i = 0 .. len(points) - 1
RECURSIVE ScanVertices(_, _, _, _, _)
ScanVertices(wpt, points, i, best, rho) ==
    IF i >= Len(points) THEN best
    ELSE LET pt == points[i + 1]
             d == [haversine(wpt.lat, wpt.lon, pt.lat, pt.lon)
                      EXCEPT !.res = rho[i + 1]]
         IN  ScanVertices(wpt, points, i + 1,
                          IF FLess(d, best.dist)
                          THEN [dist |-> d, idx |-> i]
                          ELSE best,
                          rho)

\* rho: the rounding of the distances of the vertices
find_closest_vertex(wpt, points, rho) ==
    ScanVertices(wpt, points, 0, [dist |-> Inf, idx |-> 0], rho)

\* ------------------------------------------------------------- snap engine
\* s[idx] = p for s.insert(idx, p)
ListInsert_Overwrite(s, idx, p) ==
    IF idx >= Len(s) THEN Append(s, p)
    ELSE [s EXCEPT ![idx + 1] = p]

\* list.insert(idx, p)
ListInsert(s, idx, p) ==
    LET k == IF idx > Len(s) THEN Len(s) ELSE idx
    IN  SubSeq(s, 1, k) \o <<p>> \o SubSeq(s, k + 1, Len(s))

\* for p in reversed(pts): segment.points.insert(idx, p)
RECURSIVE InsertReversed(_, _, _)
InsertReversed(s, idx, pts) ==
    IF pts = <<>> THEN s
    ELSE InsertReversed(ListInsert(s, idx, pts[Len(pts)]), idx,
                        SubSeq(pts, 1, Len(pts) - 1))

\* insertions.sort(key=lambda x: x[0], reverse=True): a stable sort, equal
\* keys keep their order
RECURSIVE PlaceDesc(_, _)
PlaceDesc(sorted, e) ==
    IF sorted = <<>> THEN <<e>>
    ELSE IF Head(sorted).idx >= e.idx
         THEN <<Head(sorted)>> \o PlaceDesc(Tail(sorted), e)
         ELSE <<e>> \o sorted

\* the sort without reverse=True
RECURSIVE PlaceAsc(_, _)
PlaceAsc(sorted, e) ==
    IF sorted = <<>> THEN <<e>>
    ELSE IF Head(sorted).idx <= e.idx
         THEN <<Head(sorted)>> \o PlaceAsc(Tail(sorted), e)
         ELSE <<e>> \o sorted

RECURSIVE SortDesc_Ascending(_)
SortDesc_Ascending(s) ==
    IF s = <<>> THEN <<>>
    ELSE PlaceAsc(SortDesc_Ascending(SubSeq(s, 1, Len(s) - 1)), s[Len(s)])

RECURSIVE SortDesc(_)
SortDesc(s) ==
    IF s = <<>> THEN <<>>
    ELSE PlaceDesc(SortDesc(SubSeq(s, 1, Len(s) - 1)), s[Len(s)])

\* the insertion one waypoint asks for, lines 152-168
Insertion(wpt, w, points, r) ==
    IF r.vertex_idx # None_
    THEN LET orig == points[r.vertex_idx + 1]
             dup == duplicate_point(orig, <<"dup", w>>)
             wpt_pt == make_bare_point(wpt.lat, wpt.lon, <<"wpt", w>>)
         IN  [idx |-> r.vertex_idx + 1, pts |-> <<wpt_pt, dup>>]
    ELSE LET proj == make_bare_point(r.plat, r.plon, <<"proj", w>>)
             proj_dup == make_bare_point(r.plat, r.plon, <<"proj_dup", w>>)
             wpt_pt == make_bare_point(wpt.lat, wpt.lon, <<"wpt", w>>)
         IN  [idx |-> r.seg_idx + 1, pts |-> <<proj, wpt_pt, proj_dup>>]

\* ------------------------------------------------------------------- state
VARIABLES
    mode,        \* args.m: "add" or "move"
    maxdist,     \* args.d, centimetres
    waypoints,   \* gpx_data.waypoints
    points,      \* segment.points of the segment being processed
    insertions,  \* the list insertions of process_add
    wi,          \* position of the loop over waypoints, 0-based
    pc,          \* position in process_add / process_move
    input,       \* history: segment.points as supplied
    log          \* history: what the matcher returned for each waypoint, the
                 \* tuple of line 147 (add) or line 186 (move)

vars == <<mode, maxdist, waypoints, points, insertions, wi, pc, input, log>>

SeqsUpTo(S, n) == UNION {[1..k -> S] : k \in 0..n}

InputSegment(cs) ==
    [i \in 1..Len(cs) |->
        Point(cs[i][1], cs[i][2], i, <<"in", i - 1>>)]

InputWaypoints(cs) ==
    [i \in 1..Len(cs) |->
        Point(cs[i][1], cs[i][2], NoEle, <<"w", i - 1>>)]

Init ==
    /\ mode \in {"add", "move"}
    /\ maxdist \in MaxDists
    /\ \E cs \in SeqsUpTo(WaypointCells, MaxWpts) :
          waypoints = InputWaypoints(cs)
    /\ \E cs \in SeqsUpTo(TrackCells, MaxPts) :
          /\ points = InputSegment(cs)
          /\ input = InputSegment(cs)
    /\ insertions = <<>>
    /\ wi = 0
    /\ pc = "start"
    /\ log = <<>>

\* process_add, lines 137-144
AddStart ==
    /\ pc = "start" /\ mode = "add"
    /\ pc' = IF waypoints = <<>> THEN "done" ELSE "match"
    /\ insertions' = <<>>
    /\ wi' = 0
    /\ UNCHANGED <<mode, maxdist, waypoints, points, input, log>>

\* the loop body with "if dist >= maxdist: continue"
AddMatch_SkipAtMaxdist ==
    /\ pc = "match" /\ wi < Len(waypoints)
    /\ \E rho \in EdgeRoundings(waypoints[wi + 1], points) :
          log' = Append(log, find_closest_on_segment(waypoints[wi + 1],
                                                     points, rho))
    /\ insertions' =
          IF ~DistLess(log'[Len(log')].dist, maxdist * 100) THEN insertions
          ELSE Append(insertions,
                      Insertion(waypoints[wi + 1], wi, points, log'[Len(log')]))
    /\ wi' = wi + 1
    /\ UNCHANGED <<mode, maxdist, waypoints, points, pc, input>>

\* one turn of the loop over the waypoints, lines 146-168
AddMatch ==
    /\ pc = "match" /\ wi < Len(waypoints)
    /\ \E rho \in EdgeRoundings(waypoints[wi + 1], points) :
          log' = Append(log, find_closest_on_segment(waypoints[wi + 1],
                                                     points, rho))
    /\ insertions' =
          IF DistGreater(log'[Len(log')].dist, maxdist * 100) THEN insertions
          ELSE Append(insertions,
                      Insertion(waypoints[wi + 1], wi, points, log'[Len(log')]))
    /\ wi' = wi + 1
    /\ UNCHANGED <<mode, maxdist, waypoints, points, pc, input>>

\* line 171
AddSort ==
    /\ pc = "match" /\ wi = Len(waypoints)
    /\ insertions' = SortDesc(insertions)
    /\ pc' = "insert"
    /\ UNCHANGED <<mode, maxdist, waypoints, points, wi, input, log>>

\* one turn of the loop over the insertions, lines 172-174
AddInsert ==
    /\ pc = "insert" /\ insertions # <<>>
    /\ points' = InsertReversed(points, Head(insertions).idx, Head(insertions).pts)
    /\ insertions' = Tail(insertions)
    /\ UNCHANGED <<mode, maxdist, waypoints, wi, pc, input, log>>

AddDone ==
    /\ pc = "insert" /\ insertions = <<>>
    /\ pc' = "done"
    /\ UNCHANGED <<mode, maxdist, waypoints, points, insertions, wi, input, log>>

\* process_move, lines 179-184
MoveStart ==
    /\ pc = "start" /\ mode = "move"
    /\ pc' = IF waypoints = <<>> THEN "done" ELSE "move"
    /\ wi' = 0
    /\ UNCHANGED <<mode, maxdist, waypoints, points, insertions, input, log>>

\* the loop body putting a new bare point in the place of the vertex
MoveStep_ReplacePoint ==
    /\ pc = "move" /\ wi < Len(waypoints)
    /\ \E rho \in VertexRoundings(waypoints[wi + 1], points) :
          log' = Append(log, find_closest_vertex(waypoints[wi + 1], points, rho))
    /\ points' =
          IF DistGreater(log'[Len(log')].dist, maxdist * 100) THEN points
          ELSE [points EXCEPT ![log'[Len(log')].idx + 1] =
                   make_bare_point(waypoints[wi + 1].lat,
                                   waypoints[wi + 1].lon, @.id)]
    /\ wi' = wi + 1
    /\ UNCHANGED <<mode, maxdist, waypoints, insertions, pc, input>>

\* the loop running over reversed(waypoints)
MoveStep_Reversed ==
    /\ pc = "move" /\ wi < Len(waypoints)
    /\ \E rho \in VertexRoundings(waypoints[Len(waypoints) - wi], points) :
          log' = Append(log, find_closest_vertex(waypoints[Len(waypoints) - wi],
                                                 points, rho))
    /\ points' =
          IF DistGreater(log'[Len(log')].dist, maxdist * 100) THEN points
          ELSE [points EXCEPT
                   ![log'[Len(log')].idx + 1].lat =
                       waypoints[Len(waypoints) - wi].lat,
                   ![log'[Len(log')].idx + 1].lon =
                       waypoints[Len(waypoints) - wi].lon]
    /\ wi' = wi + 1
    /\ UNCHANGED <<mode, maxdist, waypoints, insertions, pc, input>>

\* one turn of the loop over the waypoints, lines 185-190
MoveStep ==
    /\ pc = "move" /\ wi < Len(waypoints)
    /\ \E rho \in VertexRoundings(waypoints[wi + 1], points) :
          log' = Append(log, find_closest_vertex(waypoints[wi + 1], points, rho))
    /\ points' =
          IF DistGreater(log'[Len(log')].dist, maxdist * 100) THEN points
          ELSE [points EXCEPT
                   ![log'[Len(log')].idx + 1].lat = waypoints[wi + 1].lat,
                   ![log'[Len(log')].idx + 1].lon = waypoints[wi + 1].lon]
    /\ wi' = wi + 1
    /\ UNCHANGED <<mode, maxdist, waypoints, insertions, pc, input>>

MoveDone ==
    /\ pc = "move" /\ wi = Len(waypoints)
    /\ pc' = "done"
    /\ UNCHANGED <<mode, maxdist, waypoints, points, insertions, wi, input, log>>

Next ==
    \/ AddStart
    \/ AddMatch
    \/ AddSort
    \/ AddInsert
    \/ AddDone
    \/ MoveStart
    \/ MoveStep
    \/ MoveDone

Spec == Init /\ [][Next]_vars

\* a run with -m add
InitAdd == Init /\ mode = "add"

NextAdd ==
    \/ AddStart
    \/ AddMatch
    \/ AddSort
    \/ AddInsert
    \/ AddDone

SpecAdd == InitAdd /\ [][NextAdd]_vars

\* a run with -m move
InitMove == Init /\ mode = "move"

NextMove ==
    \/ MoveStart
    \/ MoveStep
    \/ MoveDone

SpecMove == InitMove /\ [][NextMove]_vars

\* ---------------------------------------------------------------- helpers
IsInput(p) == p.id[1] = "in"

\* positions in segment.points of the objects built for waypoint number w
InsertedFor(w) ==
    {i \in 1..Len(points) : ~IsInput(points[i]) /\ points[i].id[2] = w}

\* position in segment.points of the i-th input point
PosOfInput(i) == CHOOSE k \in 1..Len(points) : points[k].id = <<"in", i>>

TooFar(dist) == DistGreater(dist, maxdist * 100)

AddFinished == mode = "add" /\ pc = "done"
MoveFinished == mode = "move" /\ pc = "done"

\* waypoints (1-based positions in log) snapped as vertex / between matches
Snapped(j) == ~TooFar(log[j].dist)
VertexSnaps ==
    {j \in 1..Len(log) : Snapped(j) /\ log[j].vertex_idx # None_}
BetweenSnaps ==
    {j \in 1..Len(log) : Snapped(j) /\ log[j].vertex_idx = None_}

\* the insert index process_add uses for a match result
InsertIndex(r) ==
    IF r.vertex_idx # None_ THEN r.vertex_idx + 1 ELSE r.seg_idx + 1

\* ------------------------------------------------------------------ claims

\* C1: after process_add the input points are all still in the segment,
\* unmodified and in their order (removing the inserted points gives the
\* input back), and the segment has grown by 2 points for each vertex match
\* and by 3 for each between-vertices match.
C1_AddKeepsOriginals ==
    AddFinished =>
        /\ SelectSeq(points, IsInput) = input
        /\ Len(points) = Len(input) + 2 * Cardinality(VertexSnaps)
                                    + 3 * Cardinality(BetweenSnaps)

C1_Witness ==
    /\ AddFinished
    /\ VertexSnaps # {}
    /\ BetweenSnaps # {}
    /\ Len(input) >= 2

\* C2: process_move leaves the number of points of the segment unchanged and
\* changes nothing but the latitude and longitude of the vertex its current
\* waypoint matched within maxdist: in every step every vertex keeps its
\* elevation and its identity, a vertex whose coordinates change is the one
\* find_closest_vertex returned for a waypoint not farther than maxdist and
\* it takes that waypoint's coordinates, and the waypoints stay as they are.
C2_MoveFrame ==
    [][mode = "move" =>
        /\ Len(points') = Len(points)
        /\ waypoints' = waypoints
        /\ \A i \in 1..Len(points) :
              /\ points'[i].ele = points[i].ele
              /\ points'[i].id = points[i].id
              /\ points'[i] # points[i] =>
                    /\ Len(log') = Len(log) + 1
                    /\ log'[Len(log')].idx = i - 1
                    /\ ~DistGreater(haversine(waypoints[wi + 1].lat,
                                              waypoints[wi + 1].lon,
                                              points[i].lat, points[i].lon),
                                    maxdist * 100)
                    /\ points'[i].lat = waypoints[wi + 1].lat
                    /\ points'[i].lon = waypoints[wi + 1].lon]_vars

C2_Witness ==
    /\ MoveFinished
    /\ \E i, k \in 1..Len(points) :
          /\ points[i] # input[i]
          /\ points[k] = input[k]
          /\ points[i].ele = i
    /\ \E j \in 1..Len(log) : ~Snapped(j)

\* the distance find_closest_on_segment returned for waypoint number j - 1,
\* and how it compares with maxdist: greater by its exact value or, at the
\* exact value of maxdist, by a rounding residue
C3_DistOf(j) == log[j].dist

C3_Far(j) ==
    \/ C3_DistOf(j).n * UnitLen * UnitLen
           > (maxdist * 100) * (maxdist * 100) * C3_DistOf(j).d
    \/ /\ C3_DistOf(j).n * UnitLen * UnitLen
              = (maxdist * 100) * (maxdist * 100) * C3_DistOf(j).d
       /\ C3_DistOf(j).res = 1

C3_AtMaxdist(j) ==
    /\ C3_DistOf(j).n * UnitLen * UnitLen
           = (maxdist * 100) * (maxdist * 100) * C3_DistOf(j).d
    /\ C3_DistOf(j).res = 0

\* C3: in add mode a waypoint whose closestOnTrack distance to the segment is
\* greater than maxdist puts no point into the segment, a waypoint at
\* distance exactly maxdist is snapped, and when every waypoint is farther
\* than maxdist the final point sequence is the input sequence.
C3_FarWaypointsSkipped ==
    AddFinished =>
        /\ \A j \in 1..Len(waypoints) :
              /\ C3_Far(j) => InsertedFor(j - 1) = {}
              /\ C3_AtMaxdist(j) => InsertedFor(j - 1) # {}
        /\ (\A j \in 1..Len(waypoints) : C3_Far(j)) => points = input

\* a waypoint lying on an edge that the rounded projection misses, and one
\* whose distance is the float 0.0, with -d 0
C3_Witness ==
    /\ AddFinished
    /\ Len(waypoints) = 2
    /\ Len(input) >= 2
    /\ C3_Far(1)
    /\ C3_DistOf(1).n = 0
    /\ C3_AtMaxdist(2)
    /\ InsertedFor(1) # {}

\* waypoint number j - 1 is farther than maxdist from every input vertex
C4_FarFromInput(j) ==
    \A i \in 1..Len(input) :
        DistGreater(haversine(waypoints[j].lat, waypoints[j].lon,
                              input[i].lat, input[i].lon), maxdist * 100)

\* C4: in move mode a waypoint that is farther than maxdist from every
\* vertex of the segment as supplied never causes a vertex to be overwritten.
C4_FarWaypointNeverMoves ==
    mode = "move" =>
        \A j \in 1..Len(log) : C4_FarFromInput(j) => ~Snapped(j)

\* C5: in add mode, for every waypoint snapped onto an existing vertex V,
\* the final sequence holds, immediately after the original point V, a bare
\* point at the waypoint's coordinates and then a full duplicate of V.
C5_SpikeRightAfterVertex ==
    AddFinished =>
        \A j \in VertexSnaps :
            LET v == log[j].vertex_idx
                k == PosOfInput(v)
            IN  /\ k + 2 <= Len(points)
                /\ ~IsInput(points[k + 1])
                /\ points[k + 1].lat = waypoints[j].lat
                /\ points[k + 1].lon = waypoints[j].lon
                /\ points[k + 1].ele = NoEle
                /\ ~IsInput(points[k + 2])
                /\ points[k + 2].lat = input[v + 1].lat
                /\ points[k + 2].lon = input[v + 1].lon
                /\ points[k + 2].ele = input[v + 1].ele

\* the waypoints (1-based) that overwrote the vertex at position i
C6_Movers(i) ==
    {j \in 1..Len(log) : Snapped(j) /\ log[j].idx = i - 1}

C6_Last(S) == CHOOSE j \in S : \A k \in S : k <= j

\* C6: in move mode, when several waypoints overwrite the same vertex, the
\* final latitude and longitude of that vertex are those of the last such
\* waypoint in input order.
C6_LastWaypointWins ==
    MoveFinished =>
        \A i \in 1..Len(points) :
            C6_Movers(i) # {} =>
                /\ points[i].lat = waypoints[C6_Last(C6_Movers(i))].lat
                /\ points[i].lon = waypoints[C6_Last(C6_Movers(i))].lon

C6_Witness ==
    /\ MoveFinished
    /\ \E i \in 1..Len(points) :
          /\ Cardinality(C6_Movers(i)) >= 2
          /\ \E j, k \in C6_Movers(i) :
                /\ j < k
                /\ <<waypoints[j].lat, waypoints[j].lon>>
                       # <<waypoints[k].lat, waypoints[k].lon>>

\* C7: for a segment of at least two points, a winning projection with
\* t = 0 on edge i gives vertex index i and one with t = 1 gives vertex
\* index i + 1, never None, and add mode then inserts two points for the
\* waypoint, not three.
C7_BoundaryIsVertex ==
    (mode = "add" /\ Len(input) >= 2) =>
        \A j \in 1..Len(log) :
            LET r == log[j]
            IN  /\ r.t = Zero => r.vertex_idx = r.seg_idx
                /\ r.t = One => r.vertex_idx = r.seg_idx + 1
                /\ (pc = "done" /\ Snapped(j) /\ r.t \in {Zero, One}) =>
                      Cardinality(InsertedFor(j - 1)) = 2

C7_Witness ==
    /\ AddFinished
    /\ Len(input) = 3
    /\ \E j, k \in 1..Len(log) :
          /\ Snapped(j) /\ log[j].t = Zero
          /\ Snapped(k) /\ log[k].t = One

\* the group of points inserted for waypoint number j - 1
C8_Lowest(S) == CHOOSE i \in S : \A k \in S : i <= k

C8_GroupIds(j) ==
    IF log[j].vertex_idx # None_
    THEN <<(<<"wpt", j - 1>>), (<<"dup", j - 1>>)>>
    ELSE <<(<<"proj", j - 1>>), (<<"wpt", j - 1>>), (<<"proj_dup", j - 1>>)>>

C8_GroupInPlace(j) ==
    LET k == InsertIndex(log[j])
        lo == C8_Lowest(InsertedFor(j - 1))
        ids == C8_GroupIds(j)
    IN  /\ InsertedFor(j - 1) = lo..(lo + Len(ids) - 1)
        /\ \A x \in 1..Len(ids) : points[lo + x - 1].id = ids[x]
        /\ PosOfInput(k - 1) < lo
        /\ k < Len(input) => lo + Len(ids) - 1 < PosOfInput(k)

\* C8: in add mode all matching is done on the unmodified segment (no point
\* is inserted before the matching loop has ended, the match just returned
\* is one the matcher gives on the input sequence, and every pending insert
\* index is that of the match returned for its waypoint), and in the
\* final sequence the points inserted for one waypoint are contiguous, in
\* the order they were built, and lie between the input points that had
\* the indices k - 1 and k, k being the insert index of the group.
C8_InsertIndicesOnOriginal ==
    mode = "add" =>
        /\ pc \in {"start", "match"} => points = input
        /\ (pc = "match" /\ log # <<>>) =>
              \E rho \in EdgeRoundings(waypoints[Len(log)], input) :
                  log[Len(log)] = find_closest_on_segment(waypoints[Len(log)],
                                                          input, rho)
        /\ \A e \in 1..Len(insertions) :
              insertions[e].idx =
                  InsertIndex(log[insertions[e].pts[1].id[2] + 1])
        /\ pc = "done" =>
              \A j \in VertexSnaps \cup BetweenSnaps : C8_GroupInPlace(j)

C8_Witness ==
    /\ AddFinished
    /\ Len(input) = 3
    /\ VertexSnaps # {}
    /\ BetweenSnaps # {}
    /\ \E j, k \in 1..Len(log) :
          /\ Snapped(j) /\ Snapped(k)
          /\ InsertIndex(log[j]) < InsertIndex(log[k])

\* distance of a waypoint to a vertex, and the float with residue r
C9_Dist(wpt, pt) == haversine(wpt.lat, wpt.lon, pt.lat, pt.lon)

C9_Float(wpt, pt, r) == [C9_Dist(wpt, pt) EXCEPT !.res = r]

\* C9: find_closest_vertex returns the minimum waypoint-to-vertex distance
\* over all vertices of a non-empty segment and the lowest index among the
\* vertices at that distance (the distances being the floats of line 118:
\* under one of their roundings every vertex of a lower index is strictly
\* farther), and that vertex is the one move mode overwrites.
C9_LowestClosestVertex ==
    [][(pc = "move" /\ wi < Len(waypoints) /\ points # <<>>) =>
        LET wpt == waypoints[wi + 1]
            got == log'[Len(log')]
            i0 == got.idx + 1
        IN  /\ Len(log') = Len(log) + 1
            /\ i0 \in 1..Len(points)
            /\ got.dist = C9_Dist(wpt, points[i0])
            /\ \A i \in 1..Len(points) :
                  ~RLess(C9_Dist(wpt, points[i]), got.dist)
            /\ \E rho \in VertexRoundings(wpt, points) :
                  \A i \in 1..Len(points) :
                      /\ ~FLess(C9_Float(wpt, points[i], rho[i]), got.dist)
                      /\ i < i0 =>
                            FLess(got.dist, C9_Float(wpt, points[i], rho[i]))
            /\ ~DistGreater(got.dist, maxdist * 100) =>
                  /\ points'[i0].lat = wpt.lat
                  /\ points'[i0].lon = wpt.lon
                  /\ \A i \in 1..Len(points) : i # i0 => points'[i] = points[i]
    ]_vars

C9_Witness ==
    /\ mode = "move"
    /\ Len(log) = 1
    /\ Snapped(1)
    /\ \E i, k \in 1..Len(input) :
          /\ i < k
          /\ <<input[i].lat, input[i].lon>> # <<input[k].lat, input[k].lon>>
          /\ C9_Dist(waypoints[1], input[i]) = log[1].dist
          /\ C9_Dist(waypoints[1], input[k]) = log[1].dist
          /\ log[1].idx = i - 1
          /\ points[i].lat = waypoints[1].lat
          /\ points[i].lon = waypoints[1].lon
          /\ points[k] = input[k]

\* position of the object id in segment.points
C10_Pos(id) == CHOOSE k \in 1..Len(points) : points[k].id = id

\* C10: in add mode, when two waypoints are snapped as between-vertices
\* matches onto the same edge, their groups stand in the final sequence in
\* non-decreasing order of the edge parameter t, whatever the input order
\* of the waypoints.
C10_GroupsOrderedByT ==
    AddFinished =>
        \A j1, j2 \in BetweenSnaps :
            (/\ log[j1].seg_idx = log[j2].seg_idx
             /\ RLess(log[j1].t, log[j2].t))
            => C10_Pos(<<"proj", j1 - 1>>) < C10_Pos(<<"proj", j2 - 1>>)

=============================================================================
